---- MODULE Spec2Model ----
(***************************************************************************)
(* Model of src/empty.c: the C interface stubs of the bootloader.          *)
(*                                                                         *)
(*   - __aeabi_memset / __aeabi_memset4: the ARM EABI fill entry points,   *)
(*     thin adapters over memset with the last two arguments swapped.      *)
(*   - chain_jump: the teardown sequence that hands the core over to the   *)
(*     next image.  The preprocessor picks the statements that are         *)
(*     compiled; Program(cfg) is the statement list the build contains,    *)
(*     and one action executes one statement against a model of the core   *)
(*     registers.  Every executed statement is appended to `trace`.        *)
(***************************************************************************)
EXTENDS Integers, Sequences, FiniteSets, TLC

VARIABLES
    cfg,        \* the CONFIG_* feature flags of the build
    ctl,        \* who has control: "caller", "chain_jump", "image", "returned"
    ip,         \* index in Program(cfg) of the next statement of chain_jump
    vt_arg,     \* chain_jump argument vt as passed by the caller
    msp_arg,    \* chain_jump argument msp
    pc_arg,     \* chain_jump argument pc
    vt,         \* the parameter vt as a local (line 39 modifies it)
    trace,      \* executed side-effecting statements, in order, with the value written
    timer_on,   \* system tick timer running
    usb_on,     \* USB device controller enabled
    nvic_enabled,  \* IRQ lines enabled in the NVIC (ISER)
    nvic_pending,  \* IRQ lines pending in the NVIC (ISPR)
    dcache_on,  \* data cache enabled
    icache_on,  \* instruction cache enabled
    mpu_regions,\* MPU regions programmed
    PSPLIM,     \* process stack limit register
    MSPLIM,     \* main stack limit register
    PRIMASK,    \* 1 when interrupts are globally masked (irq_lock)
    vector_table_pointer, \* _vector_table_pointer, the software relay's pointer
    VTOR,       \* SCB->VTOR
    MSP,        \* main stack pointer
    CONTROL,    \* CONTROL special register
    jumped_to,  \* address control was transferred to (0 before the jump)
    irq_taken,  \* the last interrupt taken while chain_jump ran, and what had run by then
    mem,        \* the bytes of the fill adapters' destination buffer, offset a at mem[a + 1]
    last,       \* the last fill call: entry point, arguments, memory before, result
    calls       \* number of fill calls made

jumpVars == <<cfg, ctl, ip, vt_arg, msp_arg, pc_arg, vt, trace, timer_on, usb_on,
              nvic_enabled, nvic_pending, dcache_on, icache_on, mpu_regions,
              PSPLIM, MSPLIM, PRIMASK, vector_table_pointer, VTOR, MSP, CONTROL,
              jumped_to, irq_taken>>

fillVars == <<mem, last, calls>>

vars == <<jumpVars, fillVars>>

----------------------------------------------------------------------------
(* Platform constants and word size *)

\* A uint32_t is held as <<high half, low half>>, each half in 0..65535
Half == 65536

Zero == <<0, 0>>

\* uint32_t addition: modulo 2^32, the carry out of the high half is lost
Add32(a, b) ==
    LET lo == a[2] + b[2]
        hi == a[1] + b[1] + (lo \div Half)
    IN  <<hi % Half, lo % Half>>

\* FLASH_BASE of the platform, 0x08000000
FLASH_BASE == <<2048, 0>>

\* address of the bootloader's own vector table, _vector_start (0x08000200)
vector_start == <<2048, 512>>

\* address of __vector_relay_table (0x08000040)
vector_relay_table == <<2048, 64>>

\* stack limit the bootloader runs with when the builtin stack guard is on (0x20000400)
BootStackLimit == <<8192, 1024>>

\* main stack pointer of the running bootloader (0x20002000)
BootMSP == <<8192, 8192>>

\* CONTROL of the running bootloader thread: SPSEL set
BootCONTROL == 2

\* size in bytes of the fill adapters' destination buffer
MemSize == 4100

\* fill calls made in one run
MaxCalls == 2

Flags == {"USB_DEVICE_STACK", "MCUBOOT_CLEANUP_ARM_CORE", "CPU_CORTEX_M7",
          "CPU_HAS_ARM_MPU", "CPU_HAS_NXP_MPU", "BUILTIN_STACK_GUARD",
          "CPU_CORTEX_M_HAS_SPLIM", "BOOT_INTR_VEC_RELOC", "SW_VECTOR_RELAY",
          "CPU_CORTEX_M_HAS_VTOR"}

Configs == [Flags -> BOOLEAN]

\* IRQ lines the bootloader has enabled in the NVIC
IRQs(c) == IF c["USB_DEVICE_STACK"] THEN {"usb", "periph"} ELSE {"periph"}

\* argument values the caller may pass: zero, aligned, misaligned, and a vt
\* whose sum with FLASH_BASE wraps (0x00000000, 0x00001000, 0xF8001001)
VtValues == {Zero, <<0, 4096>>, <<63488, 4097>>}

\* 0x00000000, 0x20008001
MspValues == {Zero, <<8192, 32769>>}

\* 0x00000000, 0x08001201
PcValues == {Zero, <<2048, 4609>>}

----------------------------------------------------------------------------
(* chain_jump: the statements the preprocessor keeps *)

Opt(b, s) == IF b THEN s ELSE <<>>

\* mutant of CleanupBlock: only PSPLIM is reset
CleanupBlockNoMsplim(c) ==
    <<"cleanup_arm_nvic">>
    \o Opt(c["CPU_CORTEX_M7"], <<"SCB_DisableDCache", "SCB_DisableICache">>)
    \o Opt(c["CPU_HAS_ARM_MPU"] \/ c["CPU_HAS_NXP_MPU"], <<"z_arm_clear_arm_mpu_config">>)
    \o Opt(c["BUILTIN_STACK_GUARD"] /\ c["CPU_CORTEX_M_HAS_SPLIM"], <<"set_PSPLIM">>)

CleanupBlock(c) ==
    <<"cleanup_arm_nvic">>
    \o Opt(c["CPU_CORTEX_M7"], <<"SCB_DisableDCache", "SCB_DisableICache">>)
    \o Opt(c["CPU_HAS_ARM_MPU"] \/ c["CPU_HAS_NXP_MPU"], <<"z_arm_clear_arm_mpu_config">>)
    \o Opt(c["BUILTIN_STACK_GUARD"] /\ c["CPU_CORTEX_M_HAS_SPLIM"],
           <<"set_PSPLIM", "set_MSPLIM">>)

\* mutant of QuiesceBlock: the cleanup is not an alternative to irq_lock, both run
QuiesceBlockBoth(c) ==
    IF c["MCUBOOT_CLEANUP_ARM_CORE"] THEN CleanupBlock(c) \o <<"irq_lock">>
    ELSE <<"irq_lock">>

QuiesceBlock(c) ==
    IF c["MCUBOOT_CLEANUP_ARM_CORE"] THEN CleanupBlock(c) ELSE <<"irq_lock">>

\* mutant of VectorBlock: without relocation the relay pointer is restored whenever
\* the relay is present
VectorBlockRestoreAlways(c) ==
    IF c["BOOT_INTR_VEC_RELOC"]
    THEN IF c["SW_VECTOR_RELAY"]
         THEN <<"relay_set_vt">> \o Opt(c["CPU_CORTEX_M_HAS_VTOR"], <<"VTOR_set_relay">>)
         ELSE Opt(c["CPU_CORTEX_M_HAS_VTOR"], <<"VTOR_set_vt">>)
    ELSE Opt(c["SW_VECTOR_RELAY"], <<"relay_set_vector_start">>)
         \o Opt(c["CPU_CORTEX_M_HAS_VTOR"] /\ c["SW_VECTOR_RELAY"],
                 <<"VTOR_set_relay_noreloc">>)

\* mutant of VectorBlock: the #elif of line 79 is an #if, so with the relay VTOR is
\* written twice
VectorBlockElifLost(c) ==
    IF c["BOOT_INTR_VEC_RELOC"]
    THEN Opt(c["SW_VECTOR_RELAY"],
             <<"relay_set_vt">> \o Opt(c["CPU_CORTEX_M_HAS_VTOR"], <<"VTOR_set_relay">>))
         \o Opt(c["CPU_CORTEX_M_HAS_VTOR"], <<"VTOR_set_vt">>)
    ELSE Opt(c["CPU_CORTEX_M_HAS_VTOR"] /\ c["SW_VECTOR_RELAY"],
             <<"relay_set_vector_start", "VTOR_set_relay_noreloc">>)

VectorBlock(c) ==
    IF c["BOOT_INTR_VEC_RELOC"]
    THEN IF c["SW_VECTOR_RELAY"]
         THEN <<"relay_set_vt">> \o Opt(c["CPU_CORTEX_M_HAS_VTOR"], <<"VTOR_set_relay">>)
         ELSE Opt(c["CPU_CORTEX_M_HAS_VTOR"], <<"VTOR_set_vt">>)
    ELSE Opt(c["CPU_CORTEX_M_HAS_VTOR"] /\ c["SW_VECTOR_RELAY"],
             <<"relay_set_vector_start", "VTOR_set_relay_noreloc">>)

\* mutant of Program: the USB controller is disabled only after the quiescing block
ProgramUsbLate(c) ==
    <<"vt_add_FLASH_BASE", "sys_clock_disable">>
    \o QuiesceBlock(c)
    \o Opt(c["USB_DEVICE_STACK"], <<"usb_disable">>)
    \o VectorBlock(c)
    \o <<"set_MSP">>
    \o Opt(c["MCUBOOT_CLEANUP_ARM_CORE"], <<"set_CONTROL", "ISB">>)
    \o <<"jump">>

\* mutant of Program: the vector table is switched before interrupts are quiesced
ProgramQuiesceLate(c) ==
    <<"vt_add_FLASH_BASE", "sys_clock_disable">>
    \o Opt(c["USB_DEVICE_STACK"], <<"usb_disable">>)
    \o VectorBlock(c)
    \o QuiesceBlock(c)
    \o <<"set_MSP">>
    \o Opt(c["MCUBOOT_CLEANUP_ARM_CORE"], <<"set_CONTROL", "ISB">>)
    \o <<"jump">>

\* mutant of Program: CONTROL is reset and the barrier issued before the vector
\* table is written
ProgramIsbBeforeVector(c) ==
    <<"vt_add_FLASH_BASE", "sys_clock_disable">>
    \o Opt(c["USB_DEVICE_STACK"], <<"usb_disable">>)
    \o QuiesceBlock(c)
    \o Opt(c["MCUBOOT_CLEANUP_ARM_CORE"], <<"set_CONTROL", "ISB">>)
    \o VectorBlock(c)
    \o <<"set_MSP">>
    \o <<"jump">>

\* mutant of Program: the main stack pointer is loaded before the core is cleaned up
ProgramMspEarly(c) ==
    <<"vt_add_FLASH_BASE", "sys_clock_disable">>
    \o Opt(c["USB_DEVICE_STACK"], <<"usb_disable">>)
    \o <<"set_MSP">>
    \o QuiesceBlock(c)
    \o VectorBlock(c)
    \o Opt(c["MCUBOOT_CLEANUP_ARM_CORE"], <<"set_CONTROL", "ISB">>)
    \o <<"jump">>

Program(c) ==
    <<"vt_add_FLASH_BASE", "sys_clock_disable">>
    \o Opt(c["USB_DEVICE_STACK"], <<"usb_disable">>)
    \o QuiesceBlock(c)
    \o VectorBlock(c)
    \o <<"set_MSP">>
    \o Opt(c["MCUBOOT_CLEANUP_ARM_CORE"], <<"set_CONTROL", "ISB">>)
    \o <<"jump">>

\* the statement chain_jump executes next ("none" outside chain_jump)
Stmt ==
    IF ctl = "chain_jump" /\ ip <= Len(Program(cfg)) THEN Program(cfg)[ip] ELSE "none"

\* mutant of AddFlashBase: the flash base is not added
AddFlashBaseOmitted(v) == v

\* vt += FLASH_BASE on uint32_t
AddFlashBase(v) == Add32(v, FLASH_BASE)

Log(op, val) == Append(trace, [op |-> op, val |-> val])

----------------------------------------------------------------------------
(* Interrupt sources *)

\* the sources chain_jump has to silence: the tick timer, the USB controller when
\* the USB stack is built in, and a peripheral whose line is enabled in the NVIC
Sources(c) == {"timer"} \cup IRQs(c)

NoIrq == [src |-> "none", quiesced |-> FALSE, vtw |-> FALSE]

\* cleanup_arm_nvic or irq_lock has been executed
Quiesced ==
    \E i \in 1..Len(trace) : trace[i].op \in {"cleanup_arm_nvic", "irq_lock"}

\* a write of the relay pointer or of VTOR has been executed
VectorWritten ==
    \E i \in 1..Len(trace) :
       trace[i].op \in {"relay_set_vt", "VTOR_set_relay", "VTOR_set_vt",
                        "relay_set_vector_start", "VTOR_set_relay_noreloc"}

\* the core takes an interrupt of source s: the source is still running, its line
\* is enabled in the NVIC (the tick is a system exception, not gated by the NVIC)
\* and PRIMASK does not mask it
CanTake(s) ==
    /\ PRIMASK = 0
    /\ CASE s = "timer" -> timer_on
         [] s = "usb" -> usb_on /\ "usb" \in nvic_enabled
         [] OTHER -> s \in nvic_enabled

----------------------------------------------------------------------------
(* Initial state: the bootloader is running, chain_jump not yet called *)

\* _vector_table_pointer when chain_jump is entered.  Without VTOR the relay is the
\* bootloader's only vectoring mechanism, so it forwards to the bootloader's own
\* table; with VTOR the bootloader does not depend on the pointer, which is then
\* either still zero or already set.
RelayPointerAtEntry(c) ==
    IF ~c["SW_VECTOR_RELAY"] THEN {Zero}
    ELSE IF c["CPU_CORTEX_M_HAS_VTOR"] THEN {Zero, vector_start}
    ELSE {vector_start}

InitJump ==
    /\ cfg \in Configs
    /\ ctl = "caller"
    /\ ip = 0
    /\ vt_arg = Zero /\ msp_arg = Zero /\ pc_arg = Zero /\ vt = Zero
    /\ trace = <<>>
    /\ timer_on = TRUE
    /\ usb_on = cfg["USB_DEVICE_STACK"]
    /\ nvic_enabled = IRQs(cfg)
    /\ nvic_pending = {"periph"}
    /\ dcache_on = cfg["CPU_CORTEX_M7"]
    /\ icache_on = cfg["CPU_CORTEX_M7"]
    /\ mpu_regions = IF cfg["CPU_HAS_ARM_MPU"] \/ cfg["CPU_HAS_NXP_MPU"] THEN {0, 1} ELSE {}
    /\ PSPLIM = IF cfg["BUILTIN_STACK_GUARD"] /\ cfg["CPU_CORTEX_M_HAS_SPLIM"]
                THEN BootStackLimit ELSE Zero
    /\ MSPLIM = IF cfg["BUILTIN_STACK_GUARD"] /\ cfg["CPU_CORTEX_M_HAS_SPLIM"]
                THEN BootStackLimit ELSE Zero
    /\ PRIMASK = 0
    /\ vector_table_pointer \in RelayPointerAtEntry(cfg)
    /\ VTOR = IF cfg["CPU_CORTEX_M_HAS_VTOR"] THEN vector_start ELSE Zero
    /\ MSP = BootMSP
    /\ CONTROL = BootCONTROL
    /\ jumped_to = Zero
    /\ irq_taken = NoIrq

\* the destination buffer before any fill: a non-constant byte pattern
InitFillVars ==
    /\ mem = [i \in 1..MemSize |-> (i * 37 + 11) % 256]
    /\ last = [fn |-> "none", data |-> 0, n |-> 0, c |-> 0, before |-> <<>>, ret |-> 0]
    /\ calls = 0

\* chain_jump runs with no fill buffer under observation
NoFill ==
    /\ mem = <<>>
    /\ last = [fn |-> "none", data |-> 0, n |-> 0, c |-> 0, before |-> <<>>, ret |-> 0]
    /\ calls = 0

Init == InitJump /\ NoFill

----------------------------------------------------------------------------
(* chain_jump, one action per statement *)

\* the caller invokes chain_jump(vt, msp, pc)
Call ==
    /\ ctl = "caller"
    /\ \E v \in VtValues, m \in MspValues, p \in PcValues :
          /\ vt_arg' = v /\ msp_arg' = m /\ pc_arg' = p
          /\ vt' = v
    /\ ctl' = "chain_jump"
    /\ ip' = 1
    /\ UNCHANGED <<cfg, trace, timer_on, usb_on, nvic_enabled, nvic_pending, dcache_on,
                   icache_on, mpu_regions, PSPLIM, MSPLIM, PRIMASK,
                   vector_table_pointer, VTOR, MSP, CONTROL, jumped_to, fillVars, irq_taken>>

\* what every statement of chain_jump leaves alone
Frame == UNCHANGED <<cfg, ctl, vt_arg, msp_arg, pc_arg, jumped_to, fillVars, irq_taken>>

\* line 39: vt += FLASH_BASE
VtAddFlashBase ==
    /\ Stmt = "vt_add_FLASH_BASE"
    /\ vt' = AddFlashBase(vt)
    /\ ip' = ip + 1
    /\ Frame
    /\ UNCHANGED <<trace, timer_on, usb_on, nvic_enabled, nvic_pending, dcache_on,
                   icache_on, mpu_regions, PSPLIM, MSPLIM, PRIMASK,
                   vector_table_pointer, VTOR, MSP, CONTROL>>

\* line 41: sys_clock_disable()
SysClockDisable ==
    /\ Stmt = "sys_clock_disable"
    /\ timer_on' = FALSE
    /\ trace' = Log("sys_clock_disable", Zero)
    /\ ip' = ip + 1
    /\ Frame
    /\ UNCHANGED <<vt, usb_on, nvic_enabled, nvic_pending, dcache_on,
                   icache_on, mpu_regions, PSPLIM, MSPLIM, PRIMASK,
                   vector_table_pointer, VTOR, MSP, CONTROL>>

\* line 45: usb_disable()
UsbDisable ==
    /\ Stmt = "usb_disable"
    /\ usb_on' = FALSE
    /\ trace' = Log("usb_disable", Zero)
    /\ ip' = ip + 1
    /\ Frame
    /\ UNCHANGED <<vt, timer_on, nvic_enabled, nvic_pending, dcache_on,
                   icache_on, mpu_regions, PSPLIM, MSPLIM, PRIMASK,
                   vector_table_pointer, VTOR, MSP, CONTROL>>

\* line 48: cleanup_arm_nvic(): every IRQ disabled, every pending bit cleared
CleanupArmNvic ==
    /\ Stmt = "cleanup_arm_nvic"
    /\ nvic_enabled' = {}
    /\ nvic_pending' = {}
    /\ trace' = Log("cleanup_arm_nvic", Zero)
    /\ ip' = ip + 1
    /\ Frame
    /\ UNCHANGED <<vt, timer_on, usb_on, dcache_on,
                   icache_on, mpu_regions, PSPLIM, MSPLIM, PRIMASK,
                   vector_table_pointer, VTOR, MSP, CONTROL>>

\* line 52: SCB_DisableDCache()
DisableDCache ==
    /\ Stmt = "SCB_DisableDCache"
    /\ dcache_on' = FALSE
    /\ trace' = Log("SCB_DisableDCache", Zero)
    /\ ip' = ip + 1
    /\ Frame
    /\ UNCHANGED <<vt, timer_on, usb_on, nvic_enabled, nvic_pending,
                   icache_on, mpu_regions, PSPLIM, MSPLIM, PRIMASK,
                   vector_table_pointer, VTOR, MSP, CONTROL>>

\* line 53: SCB_DisableICache()
DisableICache ==
    /\ Stmt = "SCB_DisableICache"
    /\ icache_on' = FALSE
    /\ trace' = Log("SCB_DisableICache", Zero)
    /\ ip' = ip + 1
    /\ Frame
    /\ UNCHANGED <<vt, timer_on, usb_on, nvic_enabled, nvic_pending, dcache_on,
                   mpu_regions, PSPLIM, MSPLIM, PRIMASK,
                   vector_table_pointer, VTOR, MSP, CONTROL>>

\* line 57: z_arm_clear_arm_mpu_config()
ClearMpuConfig ==
    /\ Stmt = "z_arm_clear_arm_mpu_config"
    /\ mpu_regions' = {}
    /\ trace' = Log("z_arm_clear_arm_mpu_config", Zero)
    /\ ip' = ip + 1
    /\ Frame
    /\ UNCHANGED <<vt, timer_on, usb_on, nvic_enabled, nvic_pending, dcache_on,
                   icache_on, PSPLIM, MSPLIM, PRIMASK,
                   vector_table_pointer, VTOR, MSP, CONTROL>>

\* line 65: __set_PSPLIM(0)
SetPSPLIM ==
    /\ Stmt = "set_PSPLIM"
    /\ PSPLIM' = Zero
    /\ trace' = Log("set_PSPLIM", Zero)
    /\ ip' = ip + 1
    /\ Frame
    /\ UNCHANGED <<vt, timer_on, usb_on, nvic_enabled, nvic_pending, dcache_on,
                   icache_on, mpu_regions, MSPLIM, PRIMASK,
                   vector_table_pointer, VTOR, MSP, CONTROL>>

\* mutant of SetMSPLIM: the process stack limit is written a second time instead
SetMSPLIMWrongRegister ==
    /\ Stmt = "set_MSPLIM"
    /\ PSPLIM' = Zero
    /\ trace' = Log("set_MSPLIM", Zero)
    /\ ip' = ip + 1
    /\ Frame
    /\ UNCHANGED <<vt, timer_on, usb_on, nvic_enabled, nvic_pending, dcache_on,
                   icache_on, mpu_regions, MSPLIM, PRIMASK, vector_table_pointer,
                   VTOR, MSP, CONTROL>>

\* line 66: __set_MSPLIM(0)
SetMSPLIM ==
    /\ Stmt = "set_MSPLIM"
    /\ MSPLIM' = Zero
    /\ trace' = Log("set_MSPLIM", Zero)
    /\ ip' = ip + 1
    /\ Frame
    /\ UNCHANGED <<vt, timer_on, usb_on, nvic_enabled, nvic_pending, dcache_on,
                   icache_on, mpu_regions, PSPLIM, PRIMASK,
                   vector_table_pointer, VTOR, MSP, CONTROL>>

\* line 70: irq_lock(): interrupts masked globally
IrqLock ==
    /\ Stmt = "irq_lock"
    /\ PRIMASK' = 1
    /\ trace' = Log("irq_lock", Zero)
    /\ ip' = ip + 1
    /\ Frame
    /\ UNCHANGED <<vt, timer_on, usb_on, nvic_enabled, nvic_pending, dcache_on,
                   icache_on, mpu_regions, PSPLIM, MSPLIM,
                   vector_table_pointer, VTOR, MSP, CONTROL>>

\* line 75: _vector_table_pointer = vt
RelaySetVt ==
    /\ Stmt = "relay_set_vt"
    /\ vector_table_pointer' = vt
    /\ trace' = Log("relay_set_vt", vt)
    /\ ip' = ip + 1
    /\ Frame
    /\ UNCHANGED <<vt, timer_on, usb_on, nvic_enabled, nvic_pending, dcache_on,
                   icache_on, mpu_regions, PSPLIM, MSPLIM, PRIMASK, VTOR, MSP,
                   CONTROL>>

\* mutant of VtorSetRelay: VTOR is pointed at the image's table, bypassing the relay
VtorSetRelayDirect ==
    /\ Stmt = "VTOR_set_relay"
    /\ VTOR' = vt
    /\ trace' = Log("VTOR_set_relay", vt)
    /\ ip' = ip + 1
    /\ UNCHANGED <<cfg, ctl, vt_arg, msp_arg, pc_arg, jumped_to, fillVars, irq_taken>>
    /\ UNCHANGED <<vt, timer_on, usb_on, nvic_enabled, nvic_pending, dcache_on,
                   icache_on, mpu_regions, PSPLIM, MSPLIM, PRIMASK,
                   vector_table_pointer, MSP, CONTROL>>

\* line 77: SCB->VTOR = (uint32_t)__vector_relay_table
VtorSetRelay ==
    /\ Stmt = "VTOR_set_relay"
    /\ VTOR' = vector_relay_table
    /\ trace' = Log("VTOR_set_relay", vector_relay_table)
    /\ ip' = ip + 1
    /\ Frame
    /\ UNCHANGED <<vt, timer_on, usb_on, nvic_enabled, nvic_pending, dcache_on,
                   icache_on, mpu_regions, PSPLIM, MSPLIM, PRIMASK,
                   vector_table_pointer, MSP, CONTROL>>

\* line 80: SCB->VTOR = (uint32_t)vt
VtorSetVt ==
    /\ Stmt = "VTOR_set_vt"
    /\ VTOR' = vt
    /\ trace' = Log("VTOR_set_vt", vt)
    /\ ip' = ip + 1
    /\ Frame
    /\ UNCHANGED <<vt, timer_on, usb_on, nvic_enabled, nvic_pending, dcache_on,
                   icache_on, mpu_regions, PSPLIM, MSPLIM, PRIMASK,
                   vector_table_pointer, MSP, CONTROL>>

\* line 84: _vector_table_pointer = _vector_start
RelaySetVectorStart ==
    /\ Stmt = "relay_set_vector_start"
    /\ vector_table_pointer' = vector_start
    /\ trace' = Log("relay_set_vector_start", vector_start)
    /\ ip' = ip + 1
    /\ Frame
    /\ UNCHANGED <<vt, timer_on, usb_on, nvic_enabled, nvic_pending, dcache_on,
                   icache_on, mpu_regions, PSPLIM, MSPLIM, PRIMASK, VTOR, MSP,
                   CONTROL>>

\* line 85: SCB->VTOR = (uint32_t)__vector_relay_table
VtorSetRelayNoReloc ==
    /\ Stmt = "VTOR_set_relay_noreloc"
    /\ VTOR' = vector_relay_table
    /\ trace' = Log("VTOR_set_relay_noreloc", vector_relay_table)
    /\ ip' = ip + 1
    /\ Frame
    /\ UNCHANGED <<vt, timer_on, usb_on, nvic_enabled, nvic_pending, dcache_on,
                   icache_on, mpu_regions, PSPLIM, MSPLIM, PRIMASK,
                   vector_table_pointer, MSP, CONTROL>>

\* mutant of SetMSP: the flash base is added to the stack pointer as well
SetMSPRelocated ==
    /\ Stmt = "set_MSP"
    /\ MSP' = AddFlashBase(msp_arg)
    /\ trace' = Log("set_MSP", AddFlashBase(msp_arg))
    /\ ip' = ip + 1
    /\ Frame
    /\ UNCHANGED <<vt, timer_on, usb_on, nvic_enabled, nvic_pending, dcache_on,
                   icache_on, mpu_regions, PSPLIM, MSPLIM, PRIMASK,
                   vector_table_pointer, VTOR, CONTROL>>

\* line 89: __set_MSP(msp)
SetMSP ==
    /\ Stmt = "set_MSP"
    /\ MSP' = msp_arg
    /\ trace' = Log("set_MSP", msp_arg)
    /\ ip' = ip + 1
    /\ Frame
    /\ UNCHANGED <<vt, timer_on, usb_on, nvic_enabled, nvic_pending, dcache_on,
                   icache_on, mpu_regions, PSPLIM, MSPLIM, PRIMASK,
                   vector_table_pointer, VTOR, CONTROL>>

\* line 91: __set_CONTROL(0x00)
SetCONTROL ==
    /\ Stmt = "set_CONTROL"
    /\ CONTROL' = 0
    /\ trace' = Log("set_CONTROL", Zero)
    /\ ip' = ip + 1
    /\ Frame
    /\ UNCHANGED <<vt, timer_on, usb_on, nvic_enabled, nvic_pending, dcache_on,
                   icache_on, mpu_regions, PSPLIM, MSPLIM, PRIMASK,
                   vector_table_pointer, VTOR, MSP>>

\* line 92: __ISB()
Isb ==
    /\ Stmt = "ISB"
    /\ trace' = Log("ISB", Zero)
    /\ ip' = ip + 1
    /\ Frame
    /\ UNCHANGED <<vt, timer_on, usb_on, nvic_enabled, nvic_pending, dcache_on,
                   icache_on, mpu_regions, PSPLIM, MSPLIM, PRIMASK,
                   vector_table_pointer, VTOR, MSP, CONTROL>>

\* mutant of Jump: a null entry point is rejected and chain_jump returns
JumpValidated ==
    /\ Stmt = "jump"
    /\ IF pc_arg = Zero
       THEN ctl' = "returned" /\ UNCHANGED <<jumped_to, trace>>
       ELSE ctl' = "image" /\ jumped_to' = pc_arg /\ trace' = Log("jump", pc_arg)
    /\ ip' = ip + 1
    /\ UNCHANGED <<cfg, vt_arg, msp_arg, pc_arg, fillVars, irq_taken>>
    /\ UNCHANGED <<vt, timer_on, usb_on, nvic_enabled, nvic_pending, dcache_on,
                   icache_on, mpu_regions, PSPLIM, MSPLIM, PRIMASK,
                   vector_table_pointer, VTOR, MSP, CONTROL>>

\* line 94: ((void (*)(void))pc)(): control passes to the code at pc
Jump ==
    /\ Stmt = "jump"
    /\ ctl' = "image"
    /\ jumped_to' = pc_arg
    /\ trace' = Log("jump", pc_arg)
    /\ ip' = ip + 1
    /\ UNCHANGED <<cfg, vt_arg, msp_arg, pc_arg, fillVars, irq_taken>>
    /\ UNCHANGED <<vt, timer_on, usb_on, nvic_enabled, nvic_pending, dcache_on,
                   icache_on, mpu_regions, PSPLIM, MSPLIM, PRIMASK,
                   vector_table_pointer, VTOR, MSP, CONTROL>>

\* lines 94-95: the call is an ordinary call and chain_jump ends after it; when
\* the code at pc returns, chain_jump returns to its caller
ImageReturn ==
    /\ ctl = "image"
    /\ ctl' = "returned"
    /\ UNCHANGED <<cfg, ip, vt_arg, msp_arg, pc_arg, jumped_to, trace, fillVars, irq_taken>>
    /\ UNCHANGED <<vt, timer_on, usb_on, nvic_enabled, nvic_pending, dcache_on,
                   icache_on, mpu_regions, PSPLIM, MSPLIM, PRIMASK,
                   vector_table_pointer, VTOR, MSP, CONTROL>>

\* between two statements of chain_jump a source that can be taken interrupts:
\* its handler runs off the current vector table and returns
TakeInterrupt ==
    /\ ctl = "chain_jump"
    /\ \E s \in Sources(cfg) :
          /\ CanTake(s)
          /\ irq_taken' = [src |-> s, quiesced |-> Quiesced, vtw |-> VectorWritten]
          /\ nvic_pending' = nvic_pending \ {s}
    /\ UNCHANGED <<cfg, ctl, ip, vt_arg, msp_arg, pc_arg, vt, trace, timer_on, usb_on,
                   nvic_enabled, dcache_on, icache_on, mpu_regions, PSPLIM, MSPLIM,
                   PRIMASK, vector_table_pointer, VTOR, MSP, CONTROL, jumped_to,
                   fillVars>>

----------------------------------------------------------------------------
(* The EABI fill adapters *)

\* values of the int argument c: 0x00, 0xFF, 0x5A, and 0x15A, which does not fit a byte
FillValues == {0, 255, 90, 346}

\* values of the size_t argument n
Counts == {0, 1, 16, 4096}

\* offsets of the destination in the buffer
Dests == {0, 3}

\* the C library's memset(s, c, n): the first n bytes at s become (unsigned char)c,
\* and s is returned.  The byte at offset a of the buffer is m[a + 1].
memset(m, s, c, n) ==
    [mem |-> SubSeq(m, 1, s) \o [i \in 1..n |-> c % 256] \o SubSeq(m, s + n + 1, Len(m)),
     ret |-> s]

\* lines 19-22: void *__aeabi_memset(void *data, size_t n, int c)
aeabi_memset(m, data, n, c) == memset(m, data, c, n)

\* mutant of aeabi_memset4: the arguments are passed on in the order received
aeabi_memset4Unswapped(m, data, n, c) == memset(m, data, n, c)

\* lines 25-28: void *__aeabi_memset4(void *data, size_t n, int c)
aeabi_memset4(m, data, n, c) == memset(m, data, c, n)

\* a call of __aeabi_memset on a destination of at least n bytes
CallAeabiMemset ==
    /\ calls < MaxCalls
    /\ \E data \in Dests, n \in Counts, c \in FillValues :
          /\ data + n <= MemSize
          /\ LET r == aeabi_memset(mem, data, n, c)
             IN  /\ mem' = r.mem
                 /\ last' = [fn |-> "__aeabi_memset", data |-> data, n |-> n, c |-> c,
                             before |-> mem, ret |-> r.ret]
    /\ calls' = calls + 1
    /\ UNCHANGED jumpVars

\* a call of __aeabi_memset4 on a destination of at least n bytes
CallAeabiMemset4 ==
    /\ calls < MaxCalls
    /\ \E data \in Dests, n \in Counts, c \in FillValues :
          /\ data + n <= MemSize
          /\ LET r == aeabi_memset4(mem, data, n, c)
             IN  /\ mem' = r.mem
                 /\ last' = [fn |-> "__aeabi_memset4", data |-> data, n |-> n, c |-> c,
                             before |-> mem, ret |-> r.ret]
    /\ calls' = calls + 1
    /\ UNCHANGED jumpVars

\* the fill adapters are exercised on their own, with chain_jump not called
InitFill ==
    /\ InitJump
    /\ cfg = [f \in Flags |-> FALSE]
    /\ InitFillVars

NextFill ==
    \/ CallAeabiMemset
    \/ CallAeabiMemset4

SpecFill == InitFill /\ [][NextFill]_vars

----------------------------------------------------------------------------
(* The whole of chain_jump *)

Next ==
    \/ Call
    \/ VtAddFlashBase
    \/ SysClockDisable
    \/ UsbDisable
    \/ CleanupArmNvic
    \/ DisableDCache
    \/ DisableICache
    \/ ClearMpuConfig
    \/ SetPSPLIM
    \/ SetMSPLIM
    \/ IrqLock
    \/ RelaySetVt
    \/ VtorSetRelay
    \/ VtorSetVt
    \/ RelaySetVectorStart
    \/ VtorSetRelayNoReloc
    \/ SetMSP
    \/ SetCONTROL
    \/ Isb
    \/ Jump
    \/ ImageReturn

Spec == Init /\ [][Next]_vars

\* chain_jump with the interrupt sources live
NextIrq ==
    \/ Next
    \/ TakeInterrupt

SpecIrq == Init /\ [][NextIrq]_vars

----------------------------------------------------------------------------
(* Properties *)

\* the executed statements, without the values
Ops == [i \in 1..Len(trace) |-> trace[i].op]

\* positions in the trace at which statement op was executed
At(op) == {i \in 1..Len(trace) : trace[i].op = op}

Done(op) == At(op) # {}

\* chain_jump has transferred control
AtJump == ctl = "image"

AllFlags == \A f \in Flags : cfg[f]

HasMpu == cfg["CPU_HAS_ARM_MPU"] \/ cfg["CPU_HAS_NXP_MPU"]

HasSplimGuard == cfg["BUILTIN_STACK_GUARD"] /\ cfg["CPU_CORTEX_M_HAS_SPLIM"]

\* the absolute address of the image's vector table, as a 32-bit sum
ImageVt ==
    LET lo == vt_arg[2] + FLASH_BASE[2]
        carry == IF lo >= Half THEN 1 ELSE 0
    IN  <<(vt_arg[1] + FLASH_BASE[1] + carry) % Half, lo % Half>>

\* position of a statement's step in the fixed order
\* timer-disable, USB-disable, NVIC-clear, cache-disable, MPU-clear,
\* stack-limit-reset, vector-table write, main-stack-pointer write, final jump;
\* 0 for the statements that are none of these
StepRank(op) ==
    CASE op = "sys_clock_disable" -> 1
      [] op = "usb_disable" -> 2
      [] op = "cleanup_arm_nvic" -> 3
      [] op \in {"SCB_DisableDCache", "SCB_DisableICache"} -> 4
      [] op = "z_arm_clear_arm_mpu_config" -> 5
      [] op \in {"set_PSPLIM", "set_MSPLIM"} -> 6
      [] op \in {"relay_set_vt", "VTOR_set_relay", "VTOR_set_vt",
                 "relay_set_vector_start", "VTOR_set_relay_noreloc"} -> 7
      [] op = "set_MSP" -> 8
      [] op = "jump" -> 9
      [] OTHER -> 0

\* whether the build's flags enable the step of the given rank
StepEnabled(r) ==
    CASE r = 1 -> TRUE
      [] r = 2 -> cfg["USB_DEVICE_STACK"]
      [] r = 3 -> cfg["MCUBOOT_CLEANUP_ARM_CORE"]
      [] r = 4 -> cfg["MCUBOOT_CLEANUP_ARM_CORE"] /\ cfg["CPU_CORTEX_M7"]
      [] r = 5 -> cfg["MCUBOOT_CLEANUP_ARM_CORE"] /\ HasMpu
      [] r = 6 -> cfg["MCUBOOT_CLEANUP_ARM_CORE"] /\ HasSplimGuard
      [] r = 7 -> cfg["SW_VECTOR_RELAY"] \/ cfg["CPU_CORTEX_M_HAS_VTOR"]
      [] r = 8 -> TRUE
      [] r = 9 -> TRUE
      [] OTHER -> TRUE

\* C1: in every flag configuration the side-effecting steps chain_jump has
\* performed so far appear in the fixed order timer-disable, USB-disable,
\* NVIC-clear, cache-disable, MPU-clear, stack-limit-reset, vector-table write,
\* main-stack-pointer write, final jump: no step of a later rank precedes one of
\* an earlier rank, no statement is executed twice, a step whose feature is
\* disabled is absent, and at the jump every step of ranks 1-6, 8 and 9 whose
\* feature is enabled is present.
C1_FixedOrder ==
    /\ \A i, j \in 1..Len(trace) :
          (i < j /\ StepRank(trace[i].op) > 0 /\ StepRank(trace[j].op) > 0)
             => /\ StepRank(trace[i].op) <= StepRank(trace[j].op)
                /\ trace[i].op # trace[j].op
    /\ \A i \in 1..Len(trace) : StepEnabled(StepRank(trace[i].op))
    /\ AtJump =>
          \A r \in {1, 2, 3, 4, 5, 6, 8, 9} :
             StepEnabled(r) => \E i \in 1..Len(trace) : StepRank(trace[i].op) = r

\* C1 witness: with every flag set the jump is reached after all nine steps
C1_Witness ==
    /\ AtJump
    /\ AllFlags
    /\ {StepRank(trace[i].op) : i \in 1..Len(trace)} = 0..9

\* the vector-table step is over: set_MSP is next or has been executed
VectorStepDone ==
    \/ Stmt = "set_MSP"
    \/ Done("set_MSP")

\* C2: with relocation enabled, the image vector-table address chain_jump
\* writes -- into the relay pointer when the software relay is present, otherwise
\* into VTOR when VTOR is present -- is vector_table_base + FLASH_BASE modulo
\* 2^32; for vector_table_base = 0x1000 it is 0x08001000.
C2_VectorAddress ==
    /\ \A i \in 1..Len(trace) :
          trace[i].op \in {"relay_set_vt", "VTOR_set_vt"}
             => /\ trace[i].val = ImageVt
                /\ vt_arg = <<0, 4096>> => trace[i].val = <<2048, 4096>>
    /\ (cfg["BOOT_INTR_VEC_RELOC"] /\ VectorStepDone /\ ctl # "caller") =>
          /\ cfg["SW_VECTOR_RELAY"] =>
                /\ Done("relay_set_vt")
                /\ vector_table_pointer = ImageVt
          /\ (~cfg["SW_VECTOR_RELAY"] /\ cfg["CPU_CORTEX_M_HAS_VTOR"]) =>
                /\ Done("VTOR_set_vt")
                /\ VTOR = ImageVt

\* C2 witness: vt = 0x1000 was passed and 0x08001000 is in VTOR at the jump
C2_Witness ==
    /\ AtJump
    /\ cfg["BOOT_INTR_VEC_RELOC"] /\ ~cfg["SW_VECTOR_RELAY"]
    /\ vt_arg = <<0, 4096>>
    /\ VTOR = <<2048, 4096>>

\* C2 witness of the 32-bit wrap is part of the same run: 0xF8001001 + 0x08000000
C2_WitnessWrap ==
    /\ AtJump
    /\ cfg["BOOT_INTR_VEC_RELOC"] /\ cfg["SW_VECTOR_RELAY"]
    /\ vt_arg = <<63488, 4097>>
    /\ vector_table_pointer = <<0, 4097>>

\* C3: with the software relay present VTOR is only ever written with the
\* address of the relay table, never with the image's vector-table address; and
\* with relocation, relay and VTOR all present, once the vector-table step is
\* over the relay pointer holds the absolute image vector-table address and
\* VTOR holds the address of the relay table.
C3_RelayNotBypassed ==
    /\ cfg["SW_VECTOR_RELAY"] =>
          \A i \in 1..Len(trace) :
             trace[i].op \in {"VTOR_set_relay", "VTOR_set_vt", "VTOR_set_relay_noreloc"}
                => /\ trace[i].val = vector_relay_table
                   /\ trace[i].val # ImageVt
    /\ (cfg["SW_VECTOR_RELAY"] /\ ctl # "caller") => VTOR # ImageVt
    /\ ( /\ cfg["BOOT_INTR_VEC_RELOC"]
         /\ cfg["SW_VECTOR_RELAY"]
         /\ cfg["CPU_CORTEX_M_HAS_VTOR"]
         /\ VectorStepDone ) =>
          /\ vector_table_pointer = ImageVt
          /\ VTOR = vector_relay_table

\* C3 witness: relay and VTOR both present, relocation on, the jump reached
C3_Witness ==
    /\ AtJump
    /\ cfg["BOOT_INTR_VEC_RELOC"] /\ cfg["SW_VECTOR_RELAY"] /\ cfg["CPU_CORTEX_M_HAS_VTOR"]
    /\ vt_arg = <<0, 4096>>
    /\ vector_table_pointer = <<2048, 4096>>
    /\ VTOR = vector_relay_table

\* C4 as claimed: with relocation disabled and the relay present, chain_jump
\* has set the relay pointer to the bootloader's own vector table by the time
\* it jumps, whatever the other flags are (VTOR included).
C4_Original ==
    (AtJump /\ ~cfg["BOOT_INTR_VEC_RELOC"] /\ cfg["SW_VECTOR_RELAY"]) =>
       \E i \in 1..Len(trace) :
          /\ trace[i].op = "relay_set_vector_start"
          /\ trace[i].val = vector_start

\* C4, amended: with relocation disabled and the relay present, chain_jump sets
\* the relay pointer to the bootloader's own vector table (and VTOR to the relay
\* table) before the jump exactly when VTOR is present too, whatever the
\* remaining flags are; without VTOR it writes neither the relay pointer nor
\* VTOR.
C4_RestoreNeedsVtor ==
    (AtJump /\ ~cfg["BOOT_INTR_VEC_RELOC"] /\ cfg["SW_VECTOR_RELAY"]) =>
       IF cfg["CPU_CORTEX_M_HAS_VTOR"]
       THEN /\ \E i \in At("relay_set_vector_start") :
                  /\ trace[i].val = vector_start
                  /\ \A j \in At("jump") : i < j
            /\ vector_table_pointer = vector_start
            /\ VTOR = vector_relay_table
       ELSE \A i \in 1..Len(trace) : StepRank(trace[i].op) # 7

\* C4 witness: relocation off, relay and VTOR present, the pointer was zero on
\* entry and is the bootloader's table at the jump
C4_Witness ==
    /\ AtJump
    /\ ~cfg["BOOT_INTR_VEC_RELOC"] /\ cfg["SW_VECTOR_RELAY"] /\ cfg["CPU_CORTEX_M_HAS_VTOR"]
    /\ Done("relay_set_vector_start")
    /\ vector_table_pointer = vector_start

\* C5: the main stack pointer is written at most once, never before an
\* NVIC-clear, cache-disable or MPU-clear step, and by the jump exactly once,
\* before the jump.
C5_MspOnceAfterCleanup ==
    /\ Cardinality(At("set_MSP")) <= 1
    /\ \A i \in At("set_MSP") :
          \A j \in 1..Len(trace) :
             StepRank(trace[j].op) \in {3, 4, 5} => j < i
    /\ (Done("set_MSP") /\ cfg["MCUBOOT_CLEANUP_ARM_CORE"]) =>
          /\ Done("cleanup_arm_nvic")
          /\ cfg["CPU_CORTEX_M7"] => Done("SCB_DisableDCache") /\ Done("SCB_DisableICache")
          /\ HasMpu => Done("z_arm_clear_arm_mpu_config")
    /\ AtJump =>
          /\ Cardinality(At("set_MSP")) = 1
          /\ \A i \in At("set_MSP") : \A j \in At("jump") : i < j
          /\ MSP = msp_arg

\* C5 witness: cleanup, cache and MPU all present, the stack pointer written
\* and the jump taken
C5_Witness ==
    /\ AtJump
    /\ cfg["MCUBOOT_CLEANUP_ARM_CORE"] /\ cfg["CPU_CORTEX_M7"] /\ cfg["CPU_HAS_ARM_MPU"]
    /\ Done("set_MSP")
    /\ MSP = <<8192, 32769>>

\* C6: after a call of either entry point with (data, n, c) the buffer is what
\* the conventional fill called as (data, c, n) leaves: the n bytes at data
\* equal c truncated to a byte, every other byte is as before, the size is
\* unchanged and data is returned -- the same for __aeabi_memset and
\* __aeabi_memset4.
C6_FillAdapters ==
    last.fn \in {"__aeabi_memset", "__aeabi_memset4"} =>
       LET byte == ((last.c % 256) + 256) % 256
       IN  /\ Len(mem) = Len(last.before)
           /\ \A a \in last.data..(last.data + last.n - 1) : mem[a + 1] = byte
           /\ \A a \in 0..(last.data - 1) : mem[a + 1] = last.before[a + 1]
           /\ SubSeq(mem, last.data + last.n + 1, Len(mem))
                 = SubSeq(last.before, last.data + last.n + 1, Len(mem))
           /\ last.ret = last.data

\* C6 witness: __aeabi_memset4 filled 4096 bytes at offset 3 with 0x5A, given as
\* the int 0x15A, over a buffer the other entry point had filled with 0xFF
C6_Witness ==
    /\ last.fn = "__aeabi_memset4"
    /\ last.data = 3 /\ last.n = 4096 /\ last.c = 346
    /\ last.before[4] = 255
    /\ mem[3] # 90 /\ mem[4] = 90 /\ mem[4099] = 90 /\ mem[4100] # 90

\* C7 as claimed: control never comes back to chain_jump's caller
C7_NeverReturns == ctl # "returned"

\* C8: with core cleanup enabled, every register chain_jump resets stays at its
\* reset value from the statement that resets it on, and at the jump the NVIC
\* has no enabled or pending line, both caches are off when the core has them,
\* the MPU has no region when there is an MPU, the stack limits are 0 when the
\* registers exist, and CONTROL is 0.
C8_ResetLikeAtJump ==
    cfg["MCUBOOT_CLEANUP_ARM_CORE"] =>
       /\ Done("cleanup_arm_nvic") => (nvic_enabled = {} /\ nvic_pending = {})
       /\ Done("SCB_DisableDCache") => ~dcache_on
       /\ Done("SCB_DisableICache") => ~icache_on
       /\ Done("z_arm_clear_arm_mpu_config") => mpu_regions = {}
       /\ Done("set_PSPLIM") => PSPLIM = Zero
       /\ Done("set_MSPLIM") => MSPLIM = Zero
       /\ Done("set_CONTROL") => CONTROL = 0
       /\ AtJump =>
             /\ nvic_enabled = {} /\ nvic_pending = {}
             /\ cfg["CPU_CORTEX_M7"] => (~dcache_on /\ ~icache_on)
             /\ HasMpu => mpu_regions = {}
             /\ cfg["CPU_CORTEX_M_HAS_SPLIM"] => (PSPLIM = Zero /\ MSPLIM = Zero)
             /\ CONTROL = 0

\* C8 witness: cleanup with cache, MPU and guarded stack limits, at the jump
C8_Witness ==
    /\ AtJump
    /\ cfg["MCUBOOT_CLEANUP_ARM_CORE"] /\ cfg["CPU_CORTEX_M7"] /\ HasMpu /\ HasSplimGuard
    /\ Done("set_MSPLIM") /\ Done("set_CONTROL")
    /\ MSPLIM = Zero /\ CONTROL = 0 /\ ~dcache_on

\* the statements of chain_jump in source order, each with the condition on the
\* flags under which it is compiled; no condition mentions an argument
Compiled(c) ==
    LET cleanup == c["MCUBOOT_CLEANUP_ARM_CORE"]
        reloc == c["BOOT_INTR_VEC_RELOC"]
        relay == c["SW_VECTOR_RELAY"]
        vtor == c["CPU_CORTEX_M_HAS_VTOR"]
    IN  << <<"sys_clock_disable", TRUE>>,
           <<"usb_disable", c["USB_DEVICE_STACK"]>>,
           <<"cleanup_arm_nvic", cleanup>>,
           <<"SCB_DisableDCache", cleanup /\ c["CPU_CORTEX_M7"]>>,
           <<"SCB_DisableICache", cleanup /\ c["CPU_CORTEX_M7"]>>,
           <<"z_arm_clear_arm_mpu_config",
             cleanup /\ (c["CPU_HAS_ARM_MPU"] \/ c["CPU_HAS_NXP_MPU"])>>,
           <<"set_PSPLIM",
             cleanup /\ c["BUILTIN_STACK_GUARD"] /\ c["CPU_CORTEX_M_HAS_SPLIM"]>>,
           <<"set_MSPLIM",
             cleanup /\ c["BUILTIN_STACK_GUARD"] /\ c["CPU_CORTEX_M_HAS_SPLIM"]>>,
           <<"irq_lock", ~cleanup>>,
           <<"relay_set_vt", reloc /\ relay>>,
           <<"VTOR_set_relay", reloc /\ relay /\ vtor>>,
           <<"VTOR_set_vt", reloc /\ ~relay /\ vtor>>,
           <<"relay_set_vector_start", ~reloc /\ relay /\ vtor>>,
           <<"VTOR_set_relay_noreloc", ~reloc /\ relay /\ vtor>>,
           <<"set_MSP", TRUE>>,
           <<"set_CONTROL", cleanup>>,
           <<"ISB", cleanup>>,
           <<"jump", TRUE>> >>

\* the statements a build with flags c executes, whatever the arguments
ExpectedOps(c) ==
    LET all == Compiled(c)
        F[k \in 0..Len(all)] ==
            IF k = 0 THEN <<>>
            ELSE IF all[k][2] THEN Append(F[k - 1], all[k][1]) ELSE F[k - 1]
    IN  F[Len(all)]

\* C9: chain_jump validates nothing and has no error outcome: for every value
\* of vt, msp and pc the statements executed so far are the prefix of one
\* sequence fixed by the flags alone, chain_jump is never stuck before its jump,
\* control leaves chain_jump only through the jump, after the whole sequence,
\* and the arguments show up in the written values only.
C9_NoValidation ==
    /\ Len(trace) <= Len(ExpectedOps(cfg))
    /\ Ops = SubSeq(ExpectedOps(cfg), 1, Len(trace))
    /\ ctl = "chain_jump" => (Len(trace) < Len(ExpectedOps(cfg)) /\ ENABLED Next)
    /\ ctl \in {"image", "returned"} =>
          /\ Ops = ExpectedOps(cfg)
          /\ jumped_to = pc_arg
          /\ MSP = msp_arg

\* C9 witness: the jump is reached with all three arguments zero
C9_Witness ==
    /\ AtJump
    /\ vt_arg = Zero /\ msp_arg = Zero /\ pc_arg = Zero
    /\ Done("jump")
    /\ MSP = Zero

\* C9 witness: and with a misaligned stack pointer and a wrapping vt
C9_WitnessMisaligned ==
    /\ AtJump
    /\ vt_arg = <<63488, 4097>> /\ msp_arg = <<8192, 32769>>
    /\ MSP = <<8192, 32769>>

\* C10: exactly one quiescing path runs.  With core cleanup the NVIC is cleared
\* and interrupts are never masked globally; without it interrupts are masked
\* globally and none of NVIC-clear, cache-disable, MPU-clear, stack-limit-reset,
\* CONTROL reset and ISB is executed, so cache, MPU and stack limits stay as
\* they were even when their flags are set.
C10_OneQuiescePath ==
    /\ cfg["MCUBOOT_CLEANUP_ARM_CORE"] =>
          /\ ~Done("irq_lock")
          /\ PRIMASK = 0
          /\ AtJump => (Done("cleanup_arm_nvic") /\ nvic_enabled = {})
    /\ ~cfg["MCUBOOT_CLEANUP_ARM_CORE"] =>
          /\ \A i \in 1..Len(trace) :
                /\ StepRank(trace[i].op) \notin {3, 4, 5, 6}
                /\ trace[i].op \notin {"set_CONTROL", "ISB"}
          /\ nvic_enabled = IRQs(cfg)
          /\ dcache_on = cfg["CPU_CORTEX_M7"] /\ icache_on = cfg["CPU_CORTEX_M7"]
          /\ HasMpu => mpu_regions # {}
          /\ HasSplimGuard => (PSPLIM = BootStackLimit /\ MSPLIM = BootStackLimit)
          /\ CONTROL = BootCONTROL
          /\ AtJump => (Cardinality(At("irq_lock")) = 1 /\ PRIMASK = 1)

\* C10 witness: no core cleanup, yet cache, MPU and stack-limit flags set: at
\* the jump interrupts are masked and the cache is still on
C10_Witness ==
    /\ AtJump
    /\ ~cfg["MCUBOOT_CLEANUP_ARM_CORE"]
    /\ cfg["CPU_CORTEX_M7"] /\ HasMpu /\ HasSplimGuard
    /\ PRIMASK = 1 /\ dcache_on /\ mpu_regions # {}

\* C10 witness: core cleanup on: the NVIC is cleared and PRIMASK is clear
C10_WitnessCleanup ==
    /\ AtJump
    /\ cfg["MCUBOOT_CLEANUP_ARM_CORE"]
    /\ Done("cleanup_arm_nvic") /\ PRIMASK = 0

\* C11: with the timer, the USB controller and NVIC-enabled peripherals live,
\* the timer is the first thing chain_jump disables, the USB controller is
\* disabled before the NVIC is cleared or interrupts are masked, every
\* interrupt taken was taken before that point and before any vector-table
\* write, and from that point to the jump no source can be taken.
C11_NoLateInterrupt ==
    /\ Len(trace) >= 1 => (trace[1].op = "sys_clock_disable" /\ ~timer_on)
    /\ \A i \in 1..Len(trace) :
          (trace[i].op \in {"cleanup_arm_nvic", "irq_lock"} /\ cfg["USB_DEVICE_STACK"])
             => \E j \in 1..(i - 1) : trace[j].op = "usb_disable"
    /\ Done("usb_disable") => ~usb_on
    /\ irq_taken.src # "none" => (~irq_taken.quiesced /\ ~irq_taken.vtw)
    /\ (ctl = "chain_jump" /\ (Quiesced \/ VectorWritten \/ Stmt = "set_MSP")) =>
          \A s \in Sources(cfg) : ~CanTake(s)

\* C11 witness: a USB interrupt was taken while chain_jump ran, before the
\* vector table was written, and the jump was reached with VTOR rewritten
C11_Witness ==
    /\ AtJump
    /\ irq_taken.src = "usb"
    /\ ~irq_taken.vtw
    /\ VectorWritten
    /\ ~usb_on

\* positions of the writes of the relay pointer and of VTOR
VectorWrites == {i \in 1..Len(trace) : StepRank(trace[i].op) = 7}

\* a barrier was executed after every vector-table write and before the jump
BarrierAfterVectorWrite ==
    \E b \in At("ISB") :
       /\ \A w \in VectorWrites : w < b
       /\ \A j \in At("jump") : b < j

\* C12 as claimed: in every configuration that writes the vector-table location
\* a barrier is executed after the write and before the jump.
C12_Original ==
    (AtJump /\ VectorWrites # {}) => BarrierAfterVectorWrite

\* What the code does instead: the only barrier after a vector-table write is the
\* ISB of line 92, compiled with core cleanup alone; without core cleanup no
\* barrier is executed between the write and the jump.
BarrierOnlyWithCleanup ==
    (AtJump /\ VectorWrites # {}) =>
       IF cfg["MCUBOOT_CLEANUP_ARM_CORE"]
       THEN BarrierAfterVectorWrite
       ELSE ~Done("ISB")

\* the failing case of C12 is reached: no core cleanup, VTOR written, no barrier
C12_NoBarrierCase ==
    /\ AtJump
    /\ ~cfg["MCUBOOT_CLEANUP_ARM_CORE"]
    /\ Done("VTOR_set_vt")
    /\ ~Done("ISB")

\* the last n executed statements
LastOps(n) == SubSeq(Ops, Len(Ops) - n + 1, Len(Ops))

\* C13: CONTROL is reset and the ISB executed if and only if core cleanup is
\* enabled, and then chain_jump ends with exactly set_MSP, CONTROL := 0, ISB,
\* jump, in that order with nothing in between; without core cleanup it ends
\* with set_MSP, jump.
C13_ControlThenIsb ==
    /\ (Done("set_CONTROL") \/ Done("ISB")) => cfg["MCUBOOT_CLEANUP_ARM_CORE"]
    /\ Cardinality(At("set_CONTROL")) <= 1 /\ Cardinality(At("ISB")) <= 1
    /\ \A i \in At("ISB") : i > 1 /\ trace[i - 1].op = "set_CONTROL"
    /\ \A i \in At("set_CONTROL") :
          /\ i > 1 /\ trace[i - 1].op = "set_MSP"
          /\ trace[i].val = Zero
    /\ AtJump =>
          IF cfg["MCUBOOT_CLEANUP_ARM_CORE"]
          THEN /\ Len(Ops) >= 4
               /\ LastOps(4) = <<"set_MSP", "set_CONTROL", "ISB", "jump">>
               /\ CONTROL = 0
          ELSE /\ Len(Ops) >= 2
               /\ LastOps(2) = <<"set_MSP", "jump">>
               /\ ~Done("set_CONTROL") /\ ~Done("ISB")
               /\ CONTROL = BootCONTROL

\* C13 witness: core cleanup on, the jump taken after CONTROL := 0 and the ISB
C13_Witness ==
    /\ AtJump
    /\ cfg["MCUBOOT_CLEANUP_ARM_CORE"]
    /\ Done("set_CONTROL") /\ Done("ISB")
    /\ CONTROL = 0

\* C14: FLASH_BASE is added to the vector-table argument only: the value
\* loaded into the main stack pointer is initial_stack_pointer and the address
\* jumped to is entry_point, both unmodified, for every input and configuration.
C14_OnlyVtRelocated ==
    /\ \A i \in At("set_MSP") : trace[i].val = msp_arg
    /\ \A i \in At("jump") : trace[i].val = pc_arg
    /\ Done("set_MSP") => MSP = msp_arg
    /\ ctl \in {"caller", "chain_jump"} => jumped_to = Zero
    /\ AtJump => (jumped_to = pc_arg /\ MSP = msp_arg)
    /\ \A i \in At("relay_set_vt") \cup At("VTOR_set_vt") : trace[i].val = ImageVt

\* C14 witness: a nonzero stack pointer and entry point arrive unmodified while
\* the vector table was relocated by FLASH_BASE
C14_Witness ==
    /\ AtJump
    /\ msp_arg = <<8192, 32769>> /\ MSP = <<8192, 32769>>
    /\ pc_arg = <<2048, 4609>> /\ jumped_to = <<2048, 4609>>
    /\ vt_arg = <<0, 4096>> /\ VTOR = <<2048, 4096>>

\* C15: with core cleanup and the guarded stack-limit registers, PSPLIM and
\* MSPLIM are both 0 when the main stack pointer is about to be loaded, both
\* resets precede the load, and both registers stay 0 up to the jump.
C15_LimitsClearedBeforeMsp ==
    (cfg["MCUBOOT_CLEANUP_ARM_CORE"] /\ HasSplimGuard) =>
       /\ (Stmt = "set_MSP" \/ Done("set_MSP")) =>
             /\ PSPLIM = Zero /\ MSPLIM = Zero
             /\ Done("set_PSPLIM") /\ Done("set_MSPLIM")
       /\ \A m \in At("set_MSP") :
             \A l \in At("set_PSPLIM") \cup At("set_MSPLIM") :
                l < m /\ trace[l].val = Zero
       /\ AtJump => (PSPLIM = Zero /\ MSPLIM = Zero /\ MSP = msp_arg)

\* C15 witness: the limits were the bootloader's, were reset, and the stack
\* pointer was loaded afterwards
C15_Witness ==
    /\ AtJump
    /\ cfg["MCUBOOT_CLEANUP_ARM_CORE"] /\ HasSplimGuard
    /\ Done("set_PSPLIM") /\ Done("set_MSPLIM")
    /\ MSPLIM = Zero /\ PSPLIM = Zero
    /\ MSP = <<8192, 32769>>

\* writes of the relay pointer, and writes of VTOR
RelayWrites == At("relay_set_vt") \cup At("relay_set_vector_start")

VtorWrites == At("VTOR_set_relay") \cup At("VTOR_set_vt") \cup At("VTOR_set_relay_noreloc")

\* the configurations in which C16 says nothing is written
NoVectorWriteConfig ==
    \/ /\ cfg["BOOT_INTR_VEC_RELOC"]
       /\ ~cfg["SW_VECTOR_RELAY"] /\ ~cfg["CPU_CORTEX_M_HAS_VTOR"]
    \/ /\ ~cfg["BOOT_INTR_VEC_RELOC"]
       /\ (~cfg["SW_VECTOR_RELAY"] \/ ~cfg["CPU_CORTEX_M_HAS_VTOR"])

\* C16: chain_jump writes neither VTOR nor the relay pointer, and both hold
\* their values of entry, exactly with relocation on and neither relay nor VTOR
\* present, or relocation off and relay or VTOR absent; in every other
\* configuration at least one of them has been written by the jump; and each is
\* written at most once per call.
C16_VectorFrame ==
    /\ Cardinality(RelayWrites) <= 1
    /\ Cardinality(VtorWrites) <= 1
    /\ NoVectorWriteConfig =>
          /\ RelayWrites = {} /\ VtorWrites = {}
          /\ vector_table_pointer \in RelayPointerAtEntry(cfg)
          /\ VTOR = IF cfg["CPU_CORTEX_M_HAS_VTOR"] THEN vector_start ELSE Zero
    /\ (AtJump /\ ~NoVectorWriteConfig) => (RelayWrites # {} \/ VtorWrites # {})

\* C16 witness: relocation off, relay without VTOR: the jump is reached with
\* nothing written
C16_Witness ==
    /\ AtJump
    /\ ~cfg["BOOT_INTR_VEC_RELOC"] /\ cfg["SW_VECTOR_RELAY"] /\ ~cfg["CPU_CORTEX_M_HAS_VTOR"]
    /\ RelayWrites = {} /\ VtorWrites = {}
    /\ vector_table_pointer = vector_start

\* C16 witness of the other side: relay and VTOR both written once
C16_WitnessWritten ==
    /\ AtJump
    /\ cfg["BOOT_INTR_VEC_RELOC"] /\ cfg["SW_VECTOR_RELAY"] /\ cfg["CPU_CORTEX_M_HAS_VTOR"]
    /\ Cardinality(RelayWrites) = 1 /\ Cardinality(VtorWrites) = 1

====
